---- MODULE Spec2Model ----
(***************************************************************************)
(* A model of pytensor's lazy conditional operator IfElse                  *)
(* (src/pytensor/ifelse.py): the lazy runtime thunk and the scheduler      *)
(* protocol it takes part in, node construction, the gradient rule and the *)
(* local rewrites.                                                         *)
(***************************************************************************)
EXTENDS Integers, Sequences, FiniteSets, TLC

(***************************************************************************)
(* Bounds of the model.                                                    *)
(***************************************************************************)
\* largest n_outs of the op whose thunk is run
MaxOuts == 3

\* values of the condition
CondVals == {-1, 0, 1}
\* the value branch input k computes to: 10 and 20 for conditional(c, 10, 20)
InputValue(k) == 10 * k

VARIABLES
    n_outs,        \* self.n_outs of the op whose thunk runs
    as_view,       \* self.as_view
    compute_in,    \* compute_map[v][0] for v = node.inputs[k], k in 0..2*n_outs
    compute_out,   \* compute_map[out][0] for out = node.outputs[i], i in 1..n_outs
    storage_in,    \* storage_map[v][0] for the inputs: a buffer id, 0 is None
    storage_out,   \* storage_map[out][0] for the outputs: a buffer id, 0 is None
    heap,          \* the content of every buffer: buffer id -> value
    status,        \* outcome of the last thunk call: "init", "need", "done", "raised"
    rval,          \* the list the last call returned
    requested,     \* every input index the thunk has returned so far
    evaluated,     \* every input index the scheduler computed in this run
    mutated        \* whether an input's buffer was overwritten after the run

thunkVars == <<n_outs, as_view, compute_in, compute_out, storage_in, storage_out,
               heap, status, rval, requested, evaluated, mutated>>

VARIABLES
    op_n_outs,            \* self.n_outs of the op make_node is called on
    condition_ndim,       \* condition.type.ndim
    true_false_branches,  \* the types of the values given after the condition
    node                  \* what make_node gave: the Apply node, or the error

nodeVars == <<op_n_outs, condition_ndim, true_false_branches, node>>

VARIABLES
    grad_op,      \* the op grad is called on: n_outs, as_view, name
    ins_dtype,    \* the dtype of the then/else pair at each branch index
    grads,        \* the output gradients: dtype and value of each
    cond_value,   \* the value the condition evaluates to
    grad_rval,    \* what grad gave: the list of gradient expressions, the two nodes
    grad_values   \* the values the gradient expressions evaluate to

gradVars == <<grad_op, ins_dtype, grads, cond_value, grad_rval, grad_values>>

VARIABLES
    ri_node,      \* the node cond_remove_identical is given: op, then- and else-values
    ri_rval       \* what it returned: False, or the new node and the replacements

removeVars == <<ri_node, ri_rval>>

VARIABLES
    applies,      \* every Apply node built so far: its op and its inputs
    fg_outputs,   \* fgraph.outputs
    rw_name,      \* the rewrite that is run
    rw_chain,     \* the nodes the rewrite was run on, in turn
    rw_rval       \* what the last run of the rewrite returned

graphVars == <<applies, fg_outputs, rw_name, rw_chain, rw_rval>>

VARIABLES
    apply_nodes_len,  \* len(fgraph.apply_nodes)
    out_ndim          \* the ndim of the type of each output of the node

inplaceVars == <<apply_nodes_len, out_ndim>>

VARIABLES
    calls         \* how many times the thunk was invoked

progressVars == <<calls>>

\* what the thunk and the scheduler leave alone, the count of calls apart
nonThunkVars == <<nodeVars, gradVars, removeVars, graphVars, inplaceVars>>
\* what make_node leaves alone
nonNodeVars == <<thunkVars, gradVars, removeVars, graphVars, inplaceVars, progressVars>>
\* what grad leaves alone
nonGradVars == <<thunkVars, nodeVars, removeVars, graphVars, inplaceVars, progressVars>>
\* what cond_remove_identical leaves alone
nonRemoveVars == <<thunkVars, nodeVars, gradVars, graphVars, inplaceVars, progressVars>>
\* what the graph rewrites leave alone
nonGraphVars == <<thunkVars, nodeVars, gradVars, removeVars, inplaceVars, progressVars>>

\* what cond_make_inplace leaves alone, the graph apart
nonInplaceVars == <<thunkVars, nodeVars, gradVars, removeVars, progressVars>>

vars == <<thunkVars, nodeVars, gradVars, removeVars, graphVars, inplaceVars, progressVars>>

(***************************************************************************)
(* The node's slots.  Input 0 is the condition, inputs 1..n_outs are the   *)
(* then-branch, inputs n_outs+1..2*n_outs the else-branch.                 *)
(***************************************************************************)
InIdx == 0 .. 2 * n_outs
ThenIdx == 1 .. n_outs
ElseIdx == (n_outs + 1) .. (2 * n_outs)
OutIdx == 1 .. n_outs

\* the buffer the scheduler stores input k's value in
InBuf(k) == k + 1
\* the buffer a copy made for output i lives in (the one it replaces is dropped)
OutBuf(i) == 2 * n_outs + 1 + i
Bufs == 1 .. (3 * n_outs + 1)

\* range(self.n_outs), as a list
RangeOuts == [idx \in 1 .. n_outs |-> idx - 1]

\* storage_map[cond][0]
truthval == heap[storage_in[0]]

\* a variant that does not re-check the computed flags
ThenMissingUnfiltered == [j \in 1 .. n_outs |-> j]

\* [idx + 1 for idx in range(n_outs) if not compute_map[input_true_branch[idx]][0]]
ThenMissing ==
    LET ls == SelectSeq(RangeOuts, LAMBDA idx : ~compute_in[idx + 1])
    IN  [j \in 1 .. Len(ls) |-> ls[j] + 1]

\* a variant that forgets the offset of the else-branch
ElseMissingNoOffset ==
    LET ls == SelectSeq(RangeOuts, LAMBDA idx : ~compute_in[1 + idx + n_outs])
    IN  [j \in 1 .. Len(ls) |-> 1 + ls[j]]

\* [1 + idx + n_outs for idx in range(n_outs) if not compute_map[inputs_false_branch[idx]][0]]
ElseMissing ==
    LET ls == SelectSeq(RangeOuts, LAMBDA idx : ~compute_in[1 + idx + n_outs])
    IN  [j \in 1 .. Len(ls) |-> 1 + ls[j] + n_outs]

Range(s) == {s[j] : j \in 1 .. Len(s)}

\* a variant that takes only positive values as true
TruthPositive == truthval > 0

\* truthval != 0
TruthNonzero == truthval # 0

\* the buffer output i holds after the then-branch loop: val itself when
\* as_view, else val.copy() / deepcopy(val)
ThenOutStorage(i) == IF as_view THEN storage_in[i] ELSE OutBuf(i)

\* a variant that views the else-branch input too
ElseOutStorageView(i) == IF as_view THEN storage_in[n_outs + i] ELSE OutBuf(i)

\* the buffer output i holds after the else-branch loop: always a copy
ElseOutStorage(i) == OutBuf(i)

\* the then-branch (resp. else-branch) input that output i is filled from
ThenSource(i) == i
ElseSource(i) == n_outs + i

\* the heap after the outputs in `done` were filled from the then-branch
\* (resp. the else-branch): an output stored in a buffer of its own receives
\* a copy of its source's content
HeapAfter(done, from_then) ==
    [b \in Bufs |->
        IF \E i \in done :
              b = OutBuf(i)
              /\ (IF from_then THEN ThenOutStorage(i) ELSE ElseOutStorage(i)) = OutBuf(i)
        THEN LET i == CHOOSE i \in done : b = OutBuf(i)
             IN  heap[storage_in[IF from_then THEN ThenSource(i) ELSE ElseSource(i)]]
        ELSE heap[b]]

\* a variant that asks for the first then-input instead
CondRequestFirstThen == <<1>>

\* the list returned while the condition is not computed
CondRequest == <<0>>

(***************************************************************************)
(* thunk(): one invocation, by its five return paths, and the path on      *)
(* which the copy of an output raises.                                     *)
(***************************************************************************)
Returns(ls, st) ==
    /\ status # "raised"
    /\ rval' = ls
    /\ status' = st
    /\ requested' = requested \cup Range(ls)

ThunkCondMissing ==
    /\ ~compute_in[0]
    /\ Returns(CondRequest, "need")
    /\ UNCHANGED <<compute_out, storage_out, heap>>
    /\ UNCHANGED <<n_outs, as_view, compute_in, storage_in, evaluated, mutated>>
    /\ UNCHANGED nonThunkVars

ThunkThenNeed ==
    /\ compute_in[0]
    /\ TruthNonzero
    /\ Len(ThenMissing) > 0
    /\ Returns(ThenMissing, "need")
    /\ UNCHANGED <<compute_out, storage_out, heap>>
    /\ UNCHANGED <<n_outs, as_view, compute_in, storage_in, evaluated, mutated>>
    /\ UNCHANGED nonThunkVars

ThunkThenDone ==
    /\ compute_in[0]
    /\ TruthNonzero
    /\ Len(ThenMissing) = 0
    /\ compute_out' = [i \in OutIdx |-> TRUE]
    /\ storage_out' = [i \in OutIdx |-> ThenOutStorage(i)]
    /\ heap' = HeapAfter(OutIdx, TRUE)
    /\ Returns(<<>>, "done")
    /\ UNCHANGED <<n_outs, as_view, compute_in, storage_in, evaluated, mutated>>
    /\ UNCHANGED nonThunkVars

ThunkElseNeed ==
    /\ compute_in[0]
    /\ ~TruthNonzero
    /\ Len(ElseMissing) > 0
    /\ Returns(ElseMissing, "need")
    /\ UNCHANGED <<compute_out, storage_out, heap>>
    /\ UNCHANGED <<n_outs, as_view, compute_in, storage_in, evaluated, mutated>>
    /\ UNCHANGED nonThunkVars

ThunkElseDone ==
    /\ compute_in[0]
    /\ ~TruthNonzero
    /\ Len(ElseMissing) = 0
    /\ compute_out' = [i \in OutIdx |-> TRUE]
    /\ storage_out' = [i \in OutIdx |-> ElseOutStorage(i)]
    /\ heap' = HeapAfter(OutIdx, FALSE)
    /\ Returns(<<>>, "done")
    /\ UNCHANGED <<n_outs, as_view, compute_in, storage_in, evaluated, mutated>>
    /\ UNCHANGED nonThunkVars

\* val.copy() / deepcopy(val) raises while output j is filled: the flags of
\* outputs 1..j are set, only outputs 1..j-1 were stored
ThunkCopyRaises ==
    /\ status # "raised"
    /\ compute_in[0]
    /\ \E j \in OutIdx :
        \/ /\ TruthNonzero
           /\ Len(ThenMissing) = 0
           /\ ~as_view
           /\ compute_out' = [i \in OutIdx |-> IF i <= j THEN TRUE ELSE compute_out[i]]
           /\ storage_out' = [i \in OutIdx |->
                                IF i < j THEN ThenOutStorage(i) ELSE storage_out[i]]
           /\ heap' = HeapAfter(1 .. (j - 1), TRUE)
        \/ /\ ~TruthNonzero
           /\ Len(ElseMissing) = 0
           /\ compute_out' = [i \in OutIdx |-> IF i <= j THEN TRUE ELSE compute_out[i]]
           /\ storage_out' = [i \in OutIdx |->
                                IF i < j THEN ElseOutStorage(i) ELSE storage_out[i]]
           /\ heap' = HeapAfter(1 .. (j - 1), FALSE)
    /\ status' = "raised"
    /\ UNCHANGED <<rval, requested>>
    /\ UNCHANGED <<n_outs, as_view, compute_in, storage_in, evaluated, mutated>>
    /\ UNCHANGED nonThunkVars

thunk ==
    \/ ThunkCondMissing
    \/ ThunkThenNeed
    \/ ThunkThenDone
    \/ ThunkElseNeed
    \/ ThunkElseDone
    \/ ThunkCopyRaises

(***************************************************************************)
(* The demand-driven scheduler: it computes an input the thunk asked for   *)
(* and calls the thunk again; once the node is done a later in-place       *)
(* consumer may overwrite a branch input's buffer.                          *)
(***************************************************************************)
ComputeInput(k) ==
    /\ status = "need"
    /\ k \in Range(rval)
    /\ ~compute_in[k]
    /\ compute_in' = [compute_in EXCEPT ![k] = TRUE]
    /\ storage_in' = [storage_in EXCEPT ![k] = InBuf(k)]
    /\ \E v \in (IF k = 0 THEN CondVals ELSE {InputValue(k)}) :
          heap' = [heap EXCEPT ![InBuf(k)] = v]
    /\ evaluated' = evaluated \cup {k}
    /\ UNCHANGED <<n_outs, as_view, compute_out, storage_out, status, rval,
                   requested, mutated>>
    /\ UNCHANGED nonThunkVars

MutateInput(k) ==
    /\ status = "done"
    /\ ~mutated
    /\ k \in ThenIdx \cup ElseIdx
    /\ compute_in[k]
    /\ heap' = [heap EXCEPT ![storage_in[k]] = heap[storage_in[k]] + 1]
    /\ mutated' = TRUE
    /\ UNCHANGED <<n_outs, as_view, compute_in, compute_out, storage_in,
                   storage_out, status, rval, requested, evaluated>>
    /\ UNCHANGED nonThunkVars

\* the state the scheduler hands the thunk: any set of inputs already
\* computed, outputs not computed, their storage empty or holding a buffer
\* left over from an earlier run (content -1)
InitThunk ==
    \E n \in 1 .. MaxOuts, av \in BOOLEAN, cv \in CondVals, stale \in BOOLEAN :
      \E S \in SUBSET (0 .. 2 * n) :
        /\ n_outs = n
        /\ as_view = av
        /\ compute_in = [k \in 0 .. 2 * n |-> k \in S]
        /\ storage_in = [k \in 0 .. 2 * n |-> IF k \in S THEN k + 1 ELSE 0]
        /\ compute_out = [i \in 1 .. n |-> FALSE]
        /\ storage_out = [i \in 1 .. n |-> IF stale THEN 2 * n + 1 + i ELSE 0]
        /\ heap = [b \in 1 .. (3 * n + 1) |->
                     IF b = 1 THEN (IF 0 \in S THEN cv ELSE 0)
                     ELSE IF b <= 2 * n + 1
                          THEN (IF b - 1 \in S THEN InputValue(b - 1) ELSE 0)
                     ELSE IF stale THEN -1 ELSE 0]
        /\ status = "init"
        /\ rval = <<>>
        /\ requested = {}
        /\ evaluated = {}
        /\ mutated = FALSE

\* the variables of the thunk while another operation is looked at
IdleThunk ==
    /\ n_outs = 0
    /\ as_view = FALSE
    /\ compute_in = <<>>
    /\ compute_out = <<>>
    /\ storage_in = <<>>
    /\ storage_out = <<>>
    /\ heap = <<>>
    /\ status = "idle"
    /\ rval = <<>>
    /\ requested = {}
    /\ evaluated = {}
    /\ mutated = FALSE

(***************************************************************************)
(* The strict scheduler: after every non-empty return it computes exactly  *)
(* the inputs the thunk asked for and then invokes the thunk again; it     *)
(* stops once the thunk has returned the empty list or has raised.         *)
(***************************************************************************)
\* the invocations the strict scheduler is followed for
MaxCalls == 4

InvokeThunk ==
    /\ calls < MaxCalls
    /\ status \in {"init", "need"}
    /\ \A k \in Range(rval) : compute_in[k]
    /\ thunk
    /\ calls' = calls + 1

ComputeRequested(k) ==
    /\ ComputeInput(k)
    /\ UNCHANGED calls

InitProgress == calls = 0

NextProgress == InvokeThunk \/ \E k \in InIdx : ComputeRequested(k)

(***************************************************************************)
(* IfElse.make_node.  A value's type is its class, its dtype and its       *)
(* static shape; an unknown dimension (None) is written -1.  TensorType    *)
(* and SparseTensorType are HasDataType and HasShape, the generic class    *)
(* (a random generator, say) is neither.                                   *)
(***************************************************************************)
\* largest n_outs of the op a node is built from
MaxNodeOuts == 2

Tensor(dt, sh) == [cls |-> "TensorType", dtype |-> dt, shape |-> sh]
Sparse(dt, sh) == [cls |-> "SparseTensorType", dtype |-> dt, shape |-> sh]
Generic == [cls |-> "Generic", dtype |-> "none", shape |-> <<>>]

ArgTypes ==
    { Tensor("float32", <<3, 5>>), Tensor("float32", <<3, 7>>),
      Tensor("float32", <<3, -1>>), Tensor("int64", <<3, 5>>),
      Tensor("float32", <<4>>), Sparse("float32", <<3, 5>>), Generic }

HasDataType(ty) == ty.cls \in {"TensorType", "SparseTensorType"}
HasShape(ty) == ty.cls \in {"TensorType", "SparseTensorType"}
ndim(ty) == Len(ty.shape)

\* a variant that only rejects too few values
TooFewBranches(n, branches) == Len(branches) < 2 * n

\* len(true_false_branches) != 2 * self.n_outs
WrongArity(n, branches) == Len(branches) # 2 * n

\* true_false_branches[: n_outs] and true_false_branches[n_outs :]
inputs_true_branch(n, branches) == SubSeq(branches, 1, n)
inputs_false_branch(n, branches) == SubSeq(branches, n + 1, Len(branches))

\* a variant without the check of ndim
PairTypeErrorNoNdim(input_t, input_f) ==
    \/ input_f.cls # input_t.cls
    \/ /\ HasDataType(input_t) /\ HasDataType(input_f)
       /\ input_t.dtype # input_f.dtype

\* the three checks of the loop body that raise TypeError
PairTypeError(input_t, input_f) ==
    \/ input_f.cls # input_t.cls
    \/ /\ HasDataType(input_t) /\ HasDataType(input_f)
       /\ input_t.dtype # input_f.dtype
    \/ /\ HasShape(input_t) /\ HasShape(input_f)
       /\ ndim(input_t) # ndim(input_f)

\* a variant that keeps the then-value's static shape
new_shape_of_true(input_t, input_f) == input_t.shape

\* tuple(s_t if s_t == s_f else None for s_t, s_f in zip(...))
new_shape(input_t, input_f) ==
    [d \in 1 .. ndim(input_t) |->
        IF input_t.shape[d] = input_f.shape[d] THEN input_t.shape[d] ELSE -1]

\* the type of output_var_t
OutputType(input_t, input_f) ==
    IF HasShape(input_t) /\ HasShape(input_f)
    THEN [input_t EXCEPT !.shape = new_shape(input_t, input_f)]
    ELSE input_t

\* type.filter_variable(var): a variable whose type the output's type
\* covers is returned as it is
filter_variable(ty, var) == var

NoNode(err) == [result |-> err, inputs |-> <<>>, outputs |-> <<>>]

MakeNode(n, c_ndim, branches) ==
    IF WrongArity(n, branches) THEN NoNode("ValueError")
    ELSE IF c_ndim > 0 THEN NoNode("TypeError")
    ELSE LET ts == inputs_true_branch(n, branches)
             fs == inputs_false_branch(n, branches)
         IN  IF \E i \in 1 .. n : PairTypeError(ts[i], fs[i])
             THEN NoNode("TypeError")
             ELSE [result |-> "Apply",
                   inputs |->
                       [i \in 1 .. n |-> filter_variable(OutputType(fs[i], ts[i]), ts[i])]
                       \o [i \in 1 .. n |-> filter_variable(OutputType(ts[i], fs[i]), fs[i])],
                   outputs |-> [i \in 1 .. n |-> OutputType(ts[i], fs[i])]]

make_node ==
    /\ node.result = "pending"
    /\ node' = MakeNode(op_n_outs, condition_ndim, true_false_branches)
    /\ UNCHANGED <<op_n_outs, condition_ndim, true_false_branches>>
    /\ UNCHANGED nonNodeVars

BranchLists(n) == UNION {[1 .. len -> ArgTypes] : len \in 0 .. (2 * n + 1)}

InitMakeNode ==
    /\ op_n_outs \in 1 .. MaxNodeOuts
    /\ condition_ndim \in {0, 1}
    /\ true_false_branches \in BranchLists(op_n_outs)
    /\ node = NoNode("pending")

IdleNode ==
    /\ op_n_outs = 0
    /\ condition_ndim = 0
    /\ true_false_branches = <<>>
    /\ node = NoNode("idle")

(***************************************************************************)
(* IfElse.grad.  A gradient expression is an input of the node ("in"), an  *)
(* output gradient ("grad"), a zeros_like of an input ("zeros") or output  *)
(* idx of one of the two nodes grad builds ("out" of node "t" or "f").     *)
(***************************************************************************)
\* largest n_outs of the op that is differentiated
MaxGradOuts == 2

Expr(kind, idx, dtype, of_node) ==
    [kind |-> kind, idx |-> idx, dtype |-> dtype, node |-> of_node]

\* ins[0], ins[1:][: n_outs], ins[1:][n_outs :]
condition == Expr("in", 0, "int8", "-")
grad_inputs_true_branch(n) == [i \in 1 .. n |-> Expr("in", i, ins_dtype[i], "-")]
grad_inputs_false_branch(n) == [i \in 1 .. n |-> Expr("in", n + i, ins_dtype[i], "-")]

\* pt.basic.zeros_like(t, dtype=...)
zeros_like(t, dtype) == Expr("zeros", t.idx, dtype, "-")

\* the output gradients as expressions
grad_exprs(n) == [i \in 1 .. n |-> Expr("grad", i, grads[i].dtype, "-")]

\* nw_name_t, nw_name_f: the name suffixed, or None
nw_name(name, suffix) == IF name # "None" THEN name \o suffix ELSE "None"

\* a variant that gives the false node the gradients as its then-values
inputs_false_grad_swapped(n) ==
    <<condition>> \o grad_exprs(n)
        \o [i \in 1 .. n |-> zeros_like(grad_inputs_false_branch(n)[i], grads[i].dtype)]

\* [condition] + grads + [zeros_like(t, dtype=grads[i].dtype) for i, t in ...]
inputs_true_grad(n) ==
    <<condition>> \o grad_exprs(n)
        \o [i \in 1 .. n |-> zeros_like(grad_inputs_true_branch(n)[i], grads[i].dtype)]

\* [condition] + [zeros_like(f, dtype=grads[i].dtype) for i, f in ...] + grads
inputs_false_grad(n) ==
    <<condition>>
        \o [i \in 1 .. n |-> zeros_like(grad_inputs_false_branch(n)[i], grads[i].dtype)]
        \o grad_exprs(n)

\* the type of an expression: the inputs are vectors of static length 4 on
\* the then-branch and of unknown length on the else-branch, so the outputs
\* and their gradients are vectors of unknown length
ExprType(e) ==
    Tensor(e.dtype, IF e.kind \in {"in", "zeros"} /\ e.idx \in 1 .. grad_op.n_outs
                    THEN <<4>> ELSE <<-1>>)

\* op(*inputs, return_list=True): the node make_node gives and its outputs
Call(op, inputs, tag) ==
    LET made == MakeNode(op.n_outs, 0,
                         [j \in 1 .. (Len(inputs) - 1) |-> ExprType(inputs[j + 1])])
    IN  [result |-> made.result,
         op |-> op,
         inputs |-> IF made.result = "Apply" THEN inputs ELSE <<>>,
         outputs |-> IF made.result = "Apply"
                     THEN [i \in 1 .. op.n_outs |->
                              Expr("out", i, made.outputs[i].dtype, tag)]
                     ELSE <<>>]

Grad(op) ==
    LET n == op.n_outs
        if_true_op == [n_outs |-> n, as_view |-> op.as_view,
                       name |-> nw_name(op.name, "_grad_t")]
        if_false_op == [n_outs |-> n, as_view |-> op.as_view,
                        name |-> nw_name(op.name, "_grad_f")]
        condition_grad == zeros_like(condition, "floatX")
        true_node == Call(if_true_op, inputs_true_grad(n), "t")
        false_node == Call(if_false_op, inputs_false_grad(n), "f")
    IN  IF true_node.result = "Apply" /\ false_node.result = "Apply"
        THEN [result |-> "list",
              list |-> <<condition_grad>> \o true_node.outputs \o false_node.outputs,
              if_true |-> true_node,
              if_false |-> false_node]
        ELSE [result |-> "TypeError", list |-> <<>>,
              if_true |-> true_node, if_false |-> false_node]

grad ==
    /\ grad_rval.result = "pending"
    /\ grad_rval' = Grad(grad_op)
    /\ UNCHANGED <<grad_op, ins_dtype, grads, cond_value, grad_values>>
    /\ UNCHANGED nonGradVars

\* output i of a node: the thunk's result for the condition's value
IfElseValue(cv, then_values, else_values, i) ==
    IF cv # 0 THEN then_values[i] ELSE else_values[i]

\* the value of a gradient expression
RECURSIVE ExprValue(_)
ExprValue(e) ==
    IF e.kind = "zeros" THEN 0
    ELSE IF e.kind = "grad" THEN grads[e.idx].value
    ELSE IF e.kind = "in" THEN (IF e.idx = 0 THEN cond_value ELSE InputValue(e.idx))
    ELSE LET nd == IF e.node = "t" THEN grad_rval.if_true ELSE grad_rval.if_false
             n == nd.op.n_outs
         IN  IfElseValue(ExprValue(nd.inputs[1]),
                         [i \in 1 .. n |-> ExprValue(nd.inputs[1 + i])],
                         [i \in 1 .. n |-> ExprValue(nd.inputs[1 + n + i])],
                         e.idx)

\* the gradient graph is compiled and run
EvalGrad ==
    /\ grad_rval.result = "list"
    /\ grad_values = <<>>
    /\ grad_values' = [j \in 1 .. Len(grad_rval.list) |-> ExprValue(grad_rval.list[j])]
    /\ UNCHANGED <<grad_op, ins_dtype, grads, cond_value, grad_rval>>
    /\ UNCHANGED nonGradVars

NoNodeCall == [result |-> "none", op |-> <<>>, inputs |-> <<>>, outputs |-> <<>>]
NoGrad(st) == [result |-> st, list |-> <<>>, if_true |-> NoNodeCall, if_false |-> NoNodeCall]

InitGrad ==
    /\ grad_op \in [n_outs : 1 .. MaxGradOuts, as_view : BOOLEAN, name : {"None", "if"}]
    /\ ins_dtype \in [1 .. grad_op.n_outs -> {"float32", "int64"}]
    /\ grads \in [1 .. grad_op.n_outs -> [dtype : {"float32", "float64"}, value : {7, 9}]]
    /\ cond_value \in CondVals
    /\ grad_rval = NoGrad("pending")
    /\ grad_values = <<>>

IdleGrad ==
    /\ grad_op = [n_outs |-> 0, as_view |-> FALSE, name |-> "None"]
    /\ ins_dtype = <<>>
    /\ grads = <<>>
    /\ cond_value = 0
    /\ grad_rval = NoGrad("idle")
    /\ grad_values = <<>>

(***************************************************************************)
(* cond_remove_identical.  The node's then- and else-values are graph      *)
(* variables, compared by identity; indices are the code's plus one.       *)
(***************************************************************************)
\* largest n_outs of the node that is deduplicated
MaxRemoveOuts == 3

Variables == {"x", "y", "p", "q"}

\* a variant that compares the then-values only
SamePairThenOnly(aes, fs, idx, jdx) == aes[idx] = aes[jdx]

\* aes[idx] == aes[jdx] and fs[idx] == fs[jdx]
SamePair(aes, fs, idx, jdx) == aes[idx] = aes[jdx] /\ fs[idx] = fs[jdx]

\* the loop that fills out_map, from index idx on; out_map[j] = 0 stands for
\* j not in out_map
RECURSIVE OutMapFrom(_, _, _, _)
OutMapFrom(aes, fs, idx, out_map) ==
    IF idx > Len(aes) THEN out_map
    ELSE OutMapFrom(aes, fs, idx + 1,
            IF out_map[idx] = 0
            THEN [jdx \in 1 .. Len(aes) |->
                    IF jdx > idx /\ SamePair(aes, fs, idx, jdx) /\ out_map[jdx] = 0
                    THEN idx
                    ELSE out_map[jdx]]
            ELSE out_map)

OutMap(aes, fs) == OutMapFrom(aes, fs, 1, [jdx \in 1 .. Len(aes) |-> 0])

\* the indices kept, in order: those not in out_map
Kept(out_map) ==
    SelectSeq([idx \in 1 .. Len(out_map) |-> idx], LAMBDA idx : out_map[idx] = 0)

\* inv_map[idx]: the position a kept index got
InvMap(out_map, idx) ==
    CHOOSE pos \in 1 .. Len(Kept(out_map)) : Kept(out_map)[pos] = idx

RemoveIdentical(nd) ==
    LET out_map == OutMap(nd.aes, nd.fs)
        kept == Kept(out_map)
        nw_ts == [pos \in 1 .. Len(kept) |-> nd.aes[kept[pos]]]
        nw_fs == [pos \in 1 .. Len(kept) |-> nd.fs[kept[pos]]]
    IN  IF \A idx \in 1 .. Len(out_map) : out_map[idx] = 0
        THEN [result |-> "False", new_node |-> <<>>, rval |-> <<>>]
        ELSE [result |-> "list",
              new_node |-> [n_outs |-> Len(nw_ts), as_view |-> nd.as_view,
                            name |-> nd.name, aes |-> nw_ts, fs |-> nw_fs],
              rval |-> [idx \in 1 .. Len(out_map) |->
                          IF out_map[idx] # 0
                          THEN InvMap(out_map, out_map[idx])
                          ELSE InvMap(out_map, idx)]]

cond_remove_identical ==
    /\ ri_rval.result = "pending"
    /\ ri_rval' = RemoveIdentical(ri_node)
    /\ UNCHANGED ri_node
    /\ UNCHANGED nonRemoveVars

InitRemove ==
    /\ \E n \in 1 .. MaxRemoveOuts :
          ri_node \in [n_outs : {n}, as_view : BOOLEAN, name : {"None", "if"},
                       aes : [1 .. n -> Variables], fs : [1 .. n -> Variables]]
    /\ ri_rval = [result |-> "pending", new_node |-> <<>>, rval |-> <<>>]

IdleRemove ==
    /\ ri_node = <<>>
    /\ ri_rval = [result |-> "idle", new_node |-> <<>>, rval |-> <<>>]

(***************************************************************************)
(* Graphs, for the rewrites.  A variable is <<owner, index>>: <<0, k>> is  *)
(* graph input k, <<a, j>> is output j of the Apply node a.  applies holds *)
(* every Apply node built so far; a rewrite that builds a node appends it. *)
(* Variables are compared by identity, as the code's == on variables does. *)
(***************************************************************************)
Leaf(k) == <<0, k>>
Out(a, j) == <<a, j>>

\* the two condition variables of the graphs
Conds == {Leaf(1), Leaf(2)}

\* IfElse(n_outs, as_view, name)
IfElseOp(n, view, nm) == [type |-> "IfElse", n_outs |-> n, as_view |-> view, name |-> nm]

\* op(*inputs): the Apply node
Apply(op, inputs) == [op |-> op, inputs |-> inputs]

\* node.outputs
Outputs(g, a) ==
    [j \in 1 .. (IF g[a].op.type = "IfElse" THEN g[a].op.n_outs ELSE 1) |-> Out(a, j)]

\* node.inputs[1:][: op.n_outs] and node.inputs[1:][op.n_outs :]
t_ins(nd) == SubSeq(nd.inputs, 2, 1 + nd.op.n_outs)
f_ins(nd) == SubSeq(nd.inputs, 2 + nd.op.n_outs, Len(nd.inputs))

\* val.owner and isinstance(val.owner.op, IfElse)
OwnerIsIfElse(g, val) == val[1] # 0 /\ g[val[1]].op.type = "IfElse"

\* the value of a variable when graph input k holds env[k]: an IfElse
\* output is the then-value if the condition is not 0, else the else-value
RECURSIVE Value(_, _, _)
Value(g, env, v) ==
    IF v[1] = 0 THEN env[v[2]]
    ELSE LET nd == g[v[1]]
         IN  IF nd.op.type = "IfElse"
             THEN IF Value(g, env, nd.inputs[1]) # 0
                  THEN Value(g, env, t_ins(nd)[v[2]])
                  ELSE Value(g, env, f_ins(nd)[v[2]])
             ELSE <<nd.op.type, [i \in 1 .. Len(nd.inputs) |-> Value(g, env, nd.inputs[i])]>>

(***************************************************************************)
(* ifelse(condition, then_branch, else_branch, name=None), called with the *)
(* keyword arguments kw: the node it builds, or the error it raises.       *)
(***************************************************************************)
\* the keyword parameters of ifelse
ifelse_keywords == {"name"}

ifelse(cond, then_branch, else_branch, kw) ==
    IF ~(DOMAIN kw \subseteq ifelse_keywords)
    THEN [result |-> "TypeError", node |-> <<>>]
    ELSE IF Len(then_branch) # Len(else_branch)
    THEN [result |-> "ValueError", node |-> <<>>]
    ELSE [result |-> "list",
          node |-> Apply(IfElseOp(Len(then_branch), FALSE, kw.name),
                         <<cond>> \o then_branch \o else_branch)]

(***************************************************************************)
(* cond_merge_ifs_true and cond_merge_ifs_false.                           *)
(***************************************************************************)
\* a variant that does not compare the conditions
InnerIfElseAnyCondition(g, nd, val) == OwnerIsIfElse(g, val)

\* the test of the loop: val is an output of an IfElse with node's condition
InnerSameCondition(g, nd, val) ==
    OwnerIsIfElse(g, val) /\ g[val[1]].inputs[1] = nd.inputs[1]

\* a variant that takes the inner node's then-values
ins_f_of_then(g, fval) == t_ins(g[fval[1]])

\* ins_t of each rewrite: the inner node's then-values, its else-values
ins_t(g, tval) == t_ins(g[tval[1]])
ins_f(g, fval) == f_ins(g[fval[1]])

\* the then-values after the replacements; tval.owner.outputs.index(tval)
\* is the variable's index
MergedTrue(g, nd) ==
    [idx \in 1 .. nd.op.n_outs |->
        LET tval == t_ins(nd)[idx]
        IN  IF InnerSameCondition(g, nd, tval) THEN ins_t(g, tval)[tval[2]] ELSE tval]

MergedFalse(g, nd) ==
    [idx \in 1 .. nd.op.n_outs |->
        LET fval == f_ins(nd)[idx]
        IN  IF InnerSameCondition(g, nd, fval) THEN ins_f(g, fval)[fval[2]] ELSE fval]

NoMatch == [result |-> "False", node |-> <<>>]

\* the rewrite: False, or the node op(*old_ins) with the replaced inputs
MergeIfsTrue(g, nd) ==
    IF nd.op.type # "IfElse" THEN NoMatch
    ELSE IF \A idx \in 1 .. nd.op.n_outs : ~InnerSameCondition(g, nd, t_ins(nd)[idx])
    THEN NoMatch
    ELSE [result |-> "list",
          node |-> Apply(nd.op, <<nd.inputs[1]>> \o MergedTrue(g, nd) \o f_ins(nd))]

MergeIfsFalse(g, nd) ==
    IF nd.op.type # "IfElse" THEN NoMatch
    ELSE IF \A idx \in 1 .. nd.op.n_outs : ~InnerSameCondition(g, nd, f_ins(nd)[idx])
    THEN NoMatch
    ELSE [result |-> "list",
          node |-> Apply(nd.op, <<nd.inputs[1]>> \o t_ins(nd) \o MergedFalse(g, nd))]

\* the node the rewrite is run on: the last node built, then the node the
\* previous run produced
Target == IF rw_chain = <<>> THEN Len(applies) ELSE rw_chain[Len(rw_chain)]

\* the rewrite is run until it returns False
cond_merge_ifs_true ==
    /\ rw_name = "cond_merge_ifs_true"
    /\ applies # <<>>
    /\ rw_rval.result # "False"
    /\ rw_rval' = MergeIfsTrue(applies, applies[Target])
    /\ IF rw_rval'.result = "list"
       THEN /\ applies' = Append(applies, rw_rval'.node)
            /\ rw_chain' = (IF rw_chain = <<>> THEN <<Target>> ELSE rw_chain)
                              \o <<Len(applies) + 1>>
       ELSE /\ rw_chain' = (IF rw_chain = <<>> THEN <<Target>> ELSE rw_chain)
            /\ UNCHANGED applies
    /\ UNCHANGED <<fg_outputs, rw_name>>
    /\ UNCHANGED nonGraphVars

cond_merge_ifs_false ==
    /\ rw_name = "cond_merge_ifs_false"
    /\ applies # <<>>
    /\ rw_rval.result # "False"
    /\ rw_rval' = MergeIfsFalse(applies, applies[Target])
    /\ IF rw_rval'.result = "list"
       THEN /\ applies' = Append(applies, rw_rval'.node)
            /\ rw_chain' = (IF rw_chain = <<>> THEN <<Target>> ELSE rw_chain)
                              \o <<Len(applies) + 1>>
       ELSE /\ rw_chain' = (IF rw_chain = <<>> THEN <<Target>> ELSE rw_chain)
            /\ UNCHANGED applies
    /\ UNCHANGED <<fg_outputs, rw_name>>
    /\ UNCHANGED nonGraphVars

\* most IfElse nodes nested in one another in the graphs of these rewrites
MaxNest == 3

\* the graphs: a chain of IfElse nodes of one or two outputs, each built by
\* ifelse(); on the side the rewrite looks at, a value of node a is a graph
\* input or an output of node a - 1; on the other side the first value is
\* the same variable and the second a graph input
BuildNested ==
    /\ rw_rval.result = "building"
    /\ Len(applies) < MaxNest
    /\ \E c \in Conds, n \in 1 .. 2 :
          \E pick \in [1 .. n -> 0 .. (IF applies = <<>> THEN 0
                                       ELSE applies[Len(applies)].op.n_outs)] :
            LET a == Len(applies) + 1
                picked == [i \in 1 .. n |->
                             IF pick[i] = 0 THEN Leaf(10 * a + i) ELSE Out(a - 1, pick[i])]
                others == [i \in 1 .. n |-> IF i = 1 THEN picked[1] ELSE Leaf(10 * a + 5 + i)]
            IN  applies' = Append(applies,
                    ifelse(c,
                           IF rw_name = "cond_merge_ifs_true" THEN picked ELSE others,
                           IF rw_name = "cond_merge_ifs_true" THEN others ELSE picked,
                           [name |-> <<>>]).node)
    /\ UNCHANGED <<fg_outputs, rw_name, rw_chain, rw_rval>>
    /\ UNCHANGED nonGraphVars

InitMergeIfs ==
    /\ rw_name \in {"cond_merge_ifs_true", "cond_merge_ifs_false"}
    /\ applies = <<>>
    /\ fg_outputs = <<>>
    /\ rw_chain = <<>>
    /\ rw_rval = [result |-> "building", node |-> <<>>]

(***************************************************************************)
(* The function graph: the nodes that fgraph.outputs need, their           *)
(* dependencies and their topological orders.                              *)
(***************************************************************************)
\* the node and every node it depends on; a node depends on itself
RECURSIVE Ancestors(_, _)
Ancestors(g, a) ==
    {a} \cup UNION {Ancestors(g, g[a].inputs[i][1]) :
                      i \in {k \in DOMAIN g[a].inputs : g[a].inputs[k][1] # 0}}

apply_depends_on(g, apply, depends_on) == depends_on \in Ancestors(g, apply)

\* fgraph.apply_nodes
ApplyNodes(g, outs) ==
    UNION {Ancestors(g, outs[i][1]) : i \in {k \in DOMAIN outs : outs[k][1] # 0}}

\* the sequences that hold every element of S once
Orders(S) ==
    {o \in [1 .. Cardinality(S) -> S] : \A i, j \in DOMAIN o : i # j => o[i] # o[j]}

\* what fgraph.toposort() can give: no node before a node it depends on
Toposorts(g, outs) ==
    {o \in Orders(ApplyNodes(g, outs)) :
        \A i, j \in DOMAIN o : i < j => ~apply_depends_on(g, o[i], o[j])}

\* clone_replace(x), given no replacement
clone_replace(x) == x

(***************************************************************************)
(* The fusion of two IfElse nodes, as CondMerge.apply and                  *)
(* cond_merge_random_op write it.                                          *)
(***************************************************************************)
\* mn_name, pl_name; a name is a sequence of characters, <<>> is None
NameOrQuestion(nm) == IF nm = <<>> THEN <<"?">> ELSE nm

\* new_ifelse(*new_ins)
Fused(g, mn, pl) ==
    LET mn_ts == t_ins(g[mn])
        mn_fs == f_ins(g[mn])
        pl_ts == t_ins(g[pl])
        pl_fs == f_ins(g[pl])
    IN  Apply(IfElseOp(Len(mn_ts \o pl_ts), FALSE,
                       NameOrQuestion(g[mn].op.name) \o <<"&">>
                         \o NameOrQuestion(g[pl].op.name)),
              <<g[mn].inputs[1]>> \o mn_ts \o pl_ts \o mn_fs \o pl_fs)

\* zip(old_outs, new_outs): new is the fused node
Pairs(g, mn, pl, new) ==
    LET old_outs == Outputs(g, mn) \o Outputs(g, pl)
    IN  [j \in DOMAIN old_outs |-> <<old_outs[j], Out(new, j)>>]

\* the variable that replaces v
Replaced(pairs, v) ==
    IF \E j \in DOMAIN pairs : pairs[j][1] = v
    THEN pairs[CHOOSE j \in DOMAIN pairs : pairs[j][1] = v][2]
    ELSE v

\* fgraph.replace_all_validate(pairs): every client in the graph, and
\* fgraph.outputs, read the new variables
replace_all_validate(g, outs, pairs) ==
    [g |-> [a \in DOMAIN g |->
              IF a \in ApplyNodes(g, outs)
              THEN Apply(g[a].op,
                         [i \in DOMAIN g[a].inputs |-> Replaced(pairs, g[a].inputs[i])])
              ELSE g[a]],
     outs |-> [i \in DOMAIN outs |-> Replaced(pairs, outs[i])]]

(***************************************************************************)
(* CondMerge.apply.                                                        *)
(***************************************************************************)
cond_nodes(g, nodelist) == SelectSeq(nodelist, LAMBDA s : g[s].op.type = "IfElse")

\* the loop over cond_nodes[1:]; merging_node stays cond_nodes[0]
RECURSIVE CondMergeLoop(_, _, _)
CondMergeLoop(st, merging_node, proposals) ==
    IF proposals = <<>> THEN st
    ELSE LET proposal == Head(proposals)
             new == Len(st.g) + 1
             new_outs == [j \in 1 .. Len(Pairs(st.g, merging_node, proposal, new)) |->
                            clone_replace(Pairs(st.g, merging_node, proposal, new)[j][2])]
             pairs == [j \in DOMAIN new_outs |->
                         <<Pairs(st.g, merging_node, proposal, new)[j][1], new_outs[j]>>]
             r == replace_all_validate(Append(st.g, Fused(st.g, merging_node, proposal)),
                                       st.outs, pairs)
         IN  IF /\ st.g[proposal].inputs[1] = st.g[merging_node].inputs[1]
                /\ ~apply_depends_on(st.g, proposal, merging_node)
             THEN CondMergeLoop(
                    [g |-> r.g, outs |-> r.outs,
                     fused |-> Append(st.fused, <<merging_node, proposal, new>>)],
                    merging_node, Tail(proposals))
             ELSE CondMergeLoop(st, merging_node, Tail(proposals))

CondMergeApply(g, outs, nodelist) ==
    IF Len(cond_nodes(g, nodelist)) < 2
    THEN [result |-> "False", g |-> g, outs |-> outs, fused |-> <<>>]
    ELSE LET st == CondMergeLoop([g |-> g, outs |-> outs, fused |-> <<>>],
                                 cond_nodes(g, nodelist)[1],
                                 Tail(cond_nodes(g, nodelist)))
         IN  [result |-> "None", g |-> st.g, outs |-> st.outs, fused |-> st.fused]

\* one run of the rewriter on the graph built, for a topological order
CondMerge_apply ==
    /\ rw_name = "CondMerge"
    /\ rw_rval.result = "building"
    /\ applies # <<>>
    /\ \E nodelist \in Toposorts(applies, fg_outputs) :
          LET r == CondMergeApply(applies, fg_outputs, nodelist)
          IN  /\ applies' = r.g
              /\ fg_outputs' = r.outs
              /\ rw_chain' = r.fused
              /\ rw_rval' = [result |-> r.result, nodelist |-> nodelist,
                             g |-> applies, outs |-> fg_outputs]
    /\ UNCHANGED rw_name
    /\ UNCHANGED nonGraphVars

\* most IfElse nodes in the graphs of CondMerge
MaxCondNodes == 3

\* does the rewrite that is run take graphs of at most MaxCondNodes IfElse nodes
BuildsConds ==
    /\ rw_name \in {"CondMerge", "ifelse_lift", "cond_merge_random_op"}
    /\ Len(applies) < MaxCondNodes
    /\ \A a \in DOMAIN applies : applies[a].op.type = "IfElse"

\* the graphs: IfElse nodes of one or two outputs built by ifelse(), all of
\* them outputs of the graph; the first then-value of a node is a graph
\* input or the first output of an earlier node; the nodes of two outputs
\* are named
BuildIfElse ==
    /\ rw_rval.result = "building"
    /\ BuildsConds
    /\ \E c \in Conds, n \in 1 .. 2, from \in 0 .. Len(applies) :
          LET a == Len(applies) + 1
              nm == IF n = 1 THEN <<>> ELSE <<"i", "f">>
              then_branch == [i \in 1 .. n |->
                                IF i = 1 /\ from # 0 THEN Out(from, 1) ELSE Leaf(10 * a + i)]
              else_branch == [i \in 1 .. n |-> Leaf(10 * a + 5 + i)]
          IN  /\ applies' = Append(applies,
                                   ifelse(c, then_branch, else_branch, [name |-> nm]).node)
              /\ fg_outputs' = fg_outputs \o [j \in 1 .. n |-> Out(a, j)]
    /\ UNCHANGED <<rw_name, rw_chain, rw_rval>>
    /\ UNCHANGED nonGraphVars

InitCondMerge ==
    /\ rw_name = "CondMerge"
    /\ applies = <<>>
    /\ fg_outputs = <<>>
    /\ rw_chain = <<>>
    /\ rw_rval = [result |-> "building", node |-> <<>>]

(***************************************************************************)
(* ifelse_lift_single_if_through_acceptable_ops.                           *)
(***************************************************************************)
acceptable_ops ==
    {"Shape", "SpecifyShape", "Reshape", "Dot", "Max", "Argmax", "Subtensor",
     "IncSubtensor", "Alloc", "Elemwise", "DimShuffle", "Blockwise"}

\* an op that is not an IfElse, of one output
OtherOp(type) == [type |-> type, n_outs |-> 1, as_view |-> FALSE, name |-> <<>>]

\* the IfElse nodes among the owners of the node's inputs
InputIfElseNodes(g, main_node) ==
    {main_node.inputs[i][1] :
        i \in {k \in DOMAIN main_node.inputs : OwnerIsIfElse(g, main_node.inputs[k])}}

\* true_ins and false_ins: an output of node gives way to the then-value
\* (else-value) at its index
true_ins(g, main_node, nd) ==
    [i \in DOMAIN main_node.inputs |->
        LET x == main_node.inputs[i]
        IN  IF x[1] = nd THEN t_ins(g[nd])[x[2]] ELSE x]

false_ins(g, main_node, nd) ==
    [i \in DOMAIN main_node.inputs |->
        LET x == main_node.inputs[i]
        IN  IF x[1] = nd THEN f_ins(g[nd])[x[2]] ELSE x]

\* the rewrite: False, or what ifelse(node.inputs[0], true_eval, false_eval,
\* return_list=True) gives or raises; built holds the nodes built on the way
LiftSingleIf(g, main_node) ==
    IF main_node.op.type \notin acceptable_ops
    THEN [result |-> "False", built |-> <<>>]
    ELSE IF Cardinality(InputIfElseNodes(g, main_node)) # 1
    THEN [result |-> "False", built |-> <<>>]
    ELSE LET nd == CHOOSE x \in InputIfElseNodes(g, main_node) : TRUE
             mop == main_node.op
             true_node == Apply(mop, true_ins(g, main_node, nd))
             false_node == Apply(mop, false_ins(g, main_node, nd))
             true_eval == <<Out(Len(g) + 1, 1)>>
             false_eval == <<Out(Len(g) + 2, 1)>>
             nw_outs == ifelse(g[nd].inputs[1], true_eval, false_eval,
                               [return_list |-> TRUE])
         IN  IF nw_outs.result = "list"
             THEN [result |-> "list", built |-> <<true_node, false_node, nw_outs.node>>]
             ELSE [result |-> nw_outs.result, built |-> <<true_node, false_node>>]

\* the rewrite is run on the last node built
ifelse_lift_single_if_through_acceptable_ops ==
    /\ rw_name = "ifelse_lift"
    /\ rw_rval.result = "building"
    /\ applies # <<>>
    /\ rw_rval' = LiftSingleIf(applies, applies[Len(applies)])
    /\ applies' = applies \o rw_rval'.built
    /\ rw_chain' = <<Len(applies)>>
    /\ UNCHANGED <<fg_outputs, rw_name>>
    /\ UNCHANGED nonGraphVars

(***************************************************************************)
(* cond_merge_random_op.                                                   *)
(***************************************************************************)
\* the first proposal, from position k of cond_nodes on, that merging_node
\* can be fused with; 0 when the loop ends without one
RECURSIVE FirstProposal(_, _, _)
FirstProposal(g, cn, k) ==
    IF k > Len(cn) THEN 0
    ELSE IF /\ g[cn[k]].inputs[1] = g[cn[1]].inputs[1]
            /\ ~apply_depends_on(g, cn[k], cn[1])
            /\ ~apply_depends_on(g, cn[1], cn[k])
    THEN cn[k]
    ELSE FirstProposal(g, cn, k + 1)

\* clone_replace(main_node.outputs, replace=pairs): the node re-derived
clone_replace_pairs(main_node, pairs) ==
    Apply(main_node.op,
          [i \in DOMAIN main_node.inputs |-> Replaced(pairs, main_node.inputs[i])])

\* the rewrite, for cond_nodes in the order cn the set of owners gave:
\* False, None when the loop ends, or the fused node and the new main node
MergeRandomOp(g, main_node, cn) ==
    IF main_node.op.type = "IfElse" THEN [result |-> "False", built |-> <<>>]
    ELSE IF Len(cn) < 2 THEN [result |-> "False", built |-> <<>>]
    ELSE IF FirstProposal(g, cn, 2) = 0 THEN [result |-> "None", built |-> <<>>]
    ELSE LET merging_node == cn[1]
             proposal == FirstProposal(g, cn, 2)
         IN  [result |-> "list",
              built |-> <<Fused(g, merging_node, proposal),
                          clone_replace_pairs(main_node,
                              Pairs(g, merging_node, proposal, Len(g) + 1))>>]

cond_merge_random_op ==
    /\ rw_name = "cond_merge_random_op"
    /\ rw_rval.result = "building"
    /\ applies # <<>>
    /\ \E cn \in Orders(InputIfElseNodes(applies, applies[Len(applies)])) :
          /\ rw_rval' = MergeRandomOp(applies, applies[Len(applies)], cn)
          /\ rw_chain' = cn
    /\ applies' = applies \o rw_rval'.built
    /\ UNCHANGED <<fg_outputs, rw_name>>
    /\ UNCHANGED nonGraphVars

\* the op of the node the two rewrites are run on
MainOps == {"Elemwise", "Dot", "Scan"}

\* the outputs, last first, of the nodes of S from node a on
RECURSIVE OutputsOf(_, _, _)
OutputsOf(g, S, a) ==
    IF a > Len(g) THEN <<>>
    ELSE (IF a \in S
          THEN [j \in 1 .. g[a].op.n_outs |-> Out(a, g[a].op.n_outs + 1 - j)]
          ELSE <<>>) \o OutputsOf(g, S, a + 1)

\* the node the rewrite is run on: its inputs are a graph input and the
\* outputs of some of the IfElse nodes
BuildMain ==
    /\ rw_rval.result = "building"
    /\ rw_name \in {"ifelse_lift", "cond_merge_random_op"}
    /\ \A a \in DOMAIN applies : applies[a].op.type = "IfElse"
    /\ \E type \in MainOps, S \in SUBSET DOMAIN applies :
          applies' = Append(applies,
                            Apply(OtherOp(type), <<Leaf(3)>> \o OutputsOf(applies, S, 1)))
    /\ UNCHANGED <<fg_outputs, rw_name, rw_chain, rw_rval>>
    /\ UNCHANGED nonGraphVars

InitLift ==
    /\ rw_name = "ifelse_lift"
    /\ applies = <<>>
    /\ fg_outputs = <<>>
    /\ rw_chain = <<>>
    /\ rw_rval = [result |-> "building", built |-> <<>>]

InitMergeRandomOp ==
    /\ rw_name = "cond_merge_random_op"
    /\ applies = <<>>
    /\ fg_outputs = <<>>
    /\ rw_chain = <<>>
    /\ rw_rval = [result |-> "building", built |-> <<>>]

(***************************************************************************)
(* cond_make_inplace.                                                      *)
(***************************************************************************)
\* the size under which every IfElse is made in-place
BigGraph == 500

\* a variant that takes a graph of BigGraph nodes as small
SmallGraphInclusive == apply_nodes_len <= BigGraph

\* len(fgraph.apply_nodes) < 500
SmallGraph == apply_nodes_len < BigGraph

\* all(getattr(o.type, "ndim", -1) == 0 for o in node.outputs); out_ndim is
\* -1 for a type that has no ndim
AllScalar == \A o \in DOMAIN out_ndim : out_ndim[o] = 0

\* the rewrite: False, or the node of the in-place op on the same inputs
MakeInplace(nd) ==
    IF nd.op.type = "IfElse" /\ ~nd.op.as_view /\ (SmallGraph \/ ~AllScalar)
    THEN [result |-> "list",
          node |-> Apply(IfElseOp(nd.op.n_outs, TRUE, nd.op.name), nd.inputs)]
    ELSE NoMatch

\* the rewrite is run on the node, then on its own result, until False
cond_make_inplace ==
    /\ rw_name = "cond_make_inplace"
    /\ rw_rval.result # "False"
    /\ rw_rval' = MakeInplace(applies[Target])
    /\ IF rw_rval'.result = "list"
       THEN /\ applies' = Append(applies, rw_rval'.node)
            /\ rw_chain' = (IF rw_chain = <<>> THEN <<Target>> ELSE rw_chain)
                              \o <<Len(applies) + 1>>
       ELSE /\ rw_chain' = (IF rw_chain = <<>> THEN <<Target>> ELSE rw_chain)
            /\ UNCHANGED applies
    /\ UNCHANGED <<fg_outputs, rw_name, apply_nodes_len, out_ndim>>
    /\ UNCHANGED nonInplaceVars

\* largest n_outs of the node that is made in-place
MaxInplaceOuts == 2

\* a node of a graph of 1, 499, 500 or 501 nodes; its outputs are scalars,
\* vectors or of a type without ndim
InitInplace ==
    /\ rw_name = "cond_make_inplace"
    /\ \E n \in 1 .. MaxInplaceOuts, view \in BOOLEAN, nm \in {<<>>, <<"i", "f">>},
          type \in {"IfElse", "Dot"} :
          /\ applies = <<Apply([IfElseOp(n, view, nm) EXCEPT !.type = type],
                               [k \in 1 .. (2 * n + 1) |-> Leaf(k)])>>
          /\ out_ndim \in [1 .. n -> {-1, 0, 1}]
    /\ apply_nodes_len \in {1, BigGraph - 1, BigGraph, BigGraph + 1}
    /\ fg_outputs = <<>>
    /\ rw_chain = <<>>
    /\ rw_rval = [result |-> "pending", node |-> <<>>]

IdleInplace ==
    /\ apply_nodes_len = 0
    /\ out_ndim = <<>>

IdleGraph ==
    /\ applies = <<>>
    /\ fg_outputs = <<>>
    /\ rw_name = "idle"
    /\ rw_chain = <<>>
    /\ rw_rval = [result |-> "idle", node |-> <<>>]

(***************************************************************************)
(* The specifications: one per operation.                                  *)
(***************************************************************************)
IdleProgress == calls = 0

Init == InitThunk /\ IdleNode /\ IdleGrad /\ IdleRemove /\ IdleGraph /\ IdleInplace /\ IdleProgress

Next ==
    \/ ThunkCondMissing /\ UNCHANGED progressVars
    \/ ThunkThenNeed /\ UNCHANGED progressVars
    \/ ThunkThenDone /\ UNCHANGED progressVars
    \/ ThunkElseNeed /\ UNCHANGED progressVars
    \/ ThunkElseDone /\ UNCHANGED progressVars
    \/ ThunkCopyRaises /\ UNCHANGED progressVars
    \/ \E k \in InIdx : ComputeInput(k) /\ UNCHANGED progressVars
    \/ \E k \in InIdx : MutateInput(k) /\ UNCHANGED progressVars

Spec == Init /\ [][Next]_vars

InitNode == IdleThunk /\ InitMakeNode /\ IdleGrad /\ IdleRemove /\ IdleGraph /\ IdleInplace /\ IdleProgress

NextNode == make_node

SpecMakeNode == InitNode /\ [][NextNode]_vars

InitGradSpec == IdleThunk /\ IdleNode /\ InitGrad /\ IdleRemove /\ IdleGraph /\ IdleInplace /\ IdleProgress

NextGrad == grad \/ EvalGrad

SpecGrad == InitGradSpec /\ [][NextGrad]_vars

InitRemoveSpec == IdleThunk /\ IdleNode /\ IdleGrad /\ InitRemove /\ IdleGraph /\ IdleInplace /\ IdleProgress

NextRemove == cond_remove_identical

SpecRemoveIdentical == InitRemoveSpec /\ [][NextRemove]_vars

InitMergeIfsSpec == IdleThunk /\ IdleNode /\ IdleGrad /\ IdleRemove /\ InitMergeIfs /\ IdleInplace /\ IdleProgress

NextMergeIfs == BuildNested \/ cond_merge_ifs_true \/ cond_merge_ifs_false

SpecMergeIfs == InitMergeIfsSpec /\ [][NextMergeIfs]_vars

InitCondMergeSpec == IdleThunk /\ IdleNode /\ IdleGrad /\ IdleRemove /\ InitCondMerge /\ IdleInplace /\ IdleProgress

NextCondMerge == BuildIfElse \/ CondMerge_apply

SpecCondMerge == InitCondMergeSpec /\ [][NextCondMerge]_vars

InitLiftSpec == IdleThunk /\ IdleNode /\ IdleGrad /\ IdleRemove /\ InitLift /\ IdleInplace /\ IdleProgress

NextLift == BuildIfElse \/ BuildMain \/ ifelse_lift_single_if_through_acceptable_ops

SpecLift == InitLiftSpec /\ [][NextLift]_vars

InitMergeRandomOpSpec ==
    IdleThunk /\ IdleNode /\ IdleGrad /\ IdleRemove /\ InitMergeRandomOp /\ IdleInplace /\ IdleProgress

NextMergeRandomOp == BuildIfElse \/ BuildMain \/ cond_merge_random_op

SpecMergeRandomOp == InitMergeRandomOpSpec /\ [][NextMergeRandomOp]_vars

InitProgressSpec ==
    InitThunk /\ IdleNode /\ IdleGrad /\ IdleRemove /\ IdleGraph /\ IdleInplace /\ InitProgress

SpecProgress == InitProgressSpec /\ [][NextProgress]_vars /\ WF_vars(NextProgress)

InitMakeInplaceSpec ==
    IdleThunk /\ IdleNode /\ IdleGrad /\ IdleRemove /\ InitInplace /\ IdleProgress

NextMakeInplace == cond_make_inplace

SpecMakeInplace == InitMakeInplaceSpec /\ [][NextMakeInplace]_vars

(***************************************************************************)
(* Properties of the thunk under the scheduler (specification Spec).       *)
(***************************************************************************)
\* the inputs of the branch the condition's value selects, and those of
\* them that are not computed
Selected == IF heap[storage_in[0]] # 0 THEN ThenIdx ELSE ElseIdx
Unselected == IF heap[storage_in[0]] # 0 THEN ElseIdx ELSE ThenIdx
SelectedMissing == {k \in Selected : ~compute_in[k]}
SelectedInput(i) == IF heap[storage_in[0]] # 0 THEN i ELSE n_outs + i
OutValue(i) == heap[storage_out[i]]

\* C1: laziness. Whatever the thunk has returned and whatever the scheduler
\* has computed in the run, no input of the branch the condition does not
\* select is among them: no else-input when the condition is nonzero, no
\* then-input when it is zero; before the condition is computed only index 0
\* was asked for.
C1_Laziness ==
    /\ evaluated \subseteq requested
    /\ ~compute_in[0] => requested \subseteq {0}
    /\ compute_in[0] => (requested \cup evaluated) \cap Unselected = {}

\* C1 witness: a run with two outputs and a nonzero condition that ended
\* after the scheduler computed then-inputs, an else-input left uncomputed
C1_Witness ==
    /\ n_outs = 2
    /\ status = "done"
    /\ heap[storage_in[0]] # 0
    /\ evaluated \cap ThenIdx # {}
    /\ \E k \in ElseIdx : ~compute_in[k]

\* C2: a call made while the condition is not computed returns [0] and
\* leaves every output's computed flag, storage slot and buffer as they were.
C2_CondRequested ==
    [][(thunk /\ ~compute_in[0]) =>
          /\ rval' = <<0>>
          /\ status' = "need"
          /\ compute_out' = compute_out
          /\ storage_out' = storage_out
          /\ heap' = heap]_vars

\* C2 witness: after such a call, with a then-input already computed and the
\* outputs holding storage left over from an earlier run
C2_Witness ==
    /\ status = "need"
    /\ rval = <<0>>
    /\ ~compute_in[0]
    /\ \E k \in ThenIdx : compute_in[k]
    /\ \E i \in OutIdx : storage_out[i] # 0

\* C3: a call made while the condition is computed and some input of the
\* selected branch is not returns exactly the indices of the selected
\* branch's inputs that are not computed, in ascending order (so never 0 and
\* never a computed input), and writes no output.
C3_MissingRequested ==
    [][(thunk /\ compute_in[0] /\ SelectedMissing # {}) =>
          /\ status' = "need"
          /\ Range(rval') = SelectedMissing
          /\ Len(rval') = Cardinality(SelectedMissing)
          /\ \A j \in 1 .. (Len(rval') - 1) : rval'[j] < rval'[j + 1]
          /\ 0 \notin Range(rval')
          /\ \A k \in Range(rval') : ~compute_in[k]
          /\ compute_out' = compute_out /\ storage_out' = storage_out]_vars

\* C3 witness: a re-invocation after a partial step: of the two then-inputs
\* asked for the scheduler computed the first, and the next call returns [2]
C3_Witness ==
    /\ n_outs = 2
    /\ status = "need"
    /\ rval = <<2>>
    /\ {1, 2} \subseteq requested
    /\ 1 \in evaluated
    /\ ~compute_in[2]

C5_InPlaceAsymmetry ==
    /\ [](\A i \in OutIdx : compute_out[i] =>
            /\ \A k \in InIdx :
                  (storage_in[k] # 0 /\ storage_out[i] = storage_in[k])
                     => (as_view /\ heap[storage_in[0]] # 0 /\ k = i)
            /\ (status = "done" /\ as_view /\ heap[storage_in[0]] # 0)
                  => storage_out[i] = storage_in[i])
    /\ [][((\E k \in InIdx : MutateInput(k)) /\ ~(as_view /\ heap[storage_in[0]] # 0))
            => \A i \in OutIdx : heap'[storage_out'[i]] = heap[storage_out[i]]]_vars

\* C5 witness: an as_view op with a zero condition is done, an else-input's
\* buffer was overwritten, and the output still holds the value it copied
C5_Witness ==
    /\ status = "done"
    /\ as_view
    /\ heap[storage_in[0]] = 0
    /\ mutated
    /\ \E i \in OutIdx : OutValue(i) # heap[storage_in[n_outs + i]]

(***************************************************************************)
(* Properties of node construction (specification SpecMakeNode).           *)
(***************************************************************************)
Built == node.result # "pending"
ArityOk == Len(true_false_branches) = 2 * op_n_outs
ThenType(i) == true_false_branches[i]
ElseType(i) == true_false_branches[op_n_outs + i]
SameElemType(i) == ThenType(i).dtype = ElseType(i).dtype
SameRank(i) == Len(ThenType(i).shape) = Len(ElseType(i).shape)
SameClass(i) == ThenType(i).cls = ElseType(i).cls

\* C6: make_node raises its arity error (ValueError in the code) and builds
\* no node exactly when the number of branch values differs from 2*n_outs.
C6_ArityError ==
    Built =>
        /\ (node.result = "ValueError") <=> ~ArityOk
        /\ ~ArityOk => (node.inputs = <<>> /\ node.outputs = <<>>)

\* C6 witness: one value too many was given, and the call raised
C6_Witness ==
    /\ node.result = "ValueError"
    /\ Len(true_false_branches) = 2 * op_n_outs + 1
    /\ condition_ndim = 0

\* C7 as stated: with the right number of values, a pair of different
\* element types or ranks gives TypeError, and with a scalar condition the
\* node is built whenever every pair has the same element type and rank.
C7_AsStated ==
    (Built /\ ArityOk) =>
        /\ (\E i \in 1 .. op_n_outs : ~SameElemType(i) \/ ~SameRank(i))
              => node.result = "TypeError"
        /\ (condition_ndim = 0 /\ \A i \in 1 .. op_n_outs : SameElemType(i) /\ SameRank(i))
              => node.result = "Apply"

\* C7 amended: with the right number of values, a pair of different element
\* types or ranks gives TypeError, and with a scalar condition the node is
\* built whenever every pair has the same type class, the same element type
\* and the same rank, whatever the shapes; a pair of different type classes
\* gives TypeError even with equal element type and rank.
C7_TypeError ==
    (Built /\ ArityOk) =>
        /\ (\E i \in 1 .. op_n_outs : ~SameElemType(i) \/ ~SameRank(i) \/ ~SameClass(i))
              => node.result = "TypeError"
        /\ (condition_ndim = 0
              /\ \A i \in 1 .. op_n_outs : SameClass(i) /\ SameElemType(i) /\ SameRank(i))
              => node.result = "Apply"

\* C7 witness: a two-output node was built from pairs of equal class,
\* element type and rank, one of them of different shapes
C7_Witness ==
    /\ node.result = "Apply"
    /\ op_n_outs = 2
    /\ ThenType(1).cls = "TensorType"
    /\ ThenType(1).shape # ElseType(1).shape

\* C8: shape intersection. In a built node, output i of a pair of shaped
\* types has in each dimension the common size where both sizes are known
\* and equal, and unknown (-1) otherwise; (3,5) with (3,7) gives (3,unknown)
\* and (4,) with (4,) gives (4,).
C8_ShapeIntersection ==
    node.result = "Apply" =>
        \A i \in 1 .. op_n_outs :
            (ThenType(i).cls # "Generic") =>
                /\ Len(node.outputs[i].shape) = Len(ThenType(i).shape)
                /\ \A d \in 1 .. Len(ThenType(i).shape) :
                      node.outputs[i].shape[d] =
                          IF /\ ThenType(i).shape[d] # -1
                             /\ ElseType(i).shape[d] # -1
                             /\ ThenType(i).shape[d] = ElseType(i).shape[d]
                          THEN ThenType(i).shape[d]
                          ELSE -1
                /\ (ThenType(i).shape = <<3, 5>> /\ ElseType(i).shape = <<3, 7>>)
                      => node.outputs[i].shape = <<3, -1>>
                /\ (ThenType(i).shape = <<4>> /\ ElseType(i).shape = <<4>>)
                      => node.outputs[i].shape = <<4>>

\* C8 witness: a two-output node of (3,5) with (3,7) and of (4,) with (4,)
C8_Witness ==
    /\ node.result = "Apply"
    /\ op_n_outs = 2
    /\ ThenType(1).shape = <<3, 5>> /\ ElseType(1).shape = <<3, 7>>
    /\ node.outputs[1].shape = <<3, -1>>
    /\ ThenType(2).shape = <<4>> /\ ElseType(2).shape = <<4>>
    /\ node.outputs[2].shape = <<4>>

(***************************************************************************)
(* Properties of the gradient rule (specification SpecGrad).               *)
(***************************************************************************)
\* C9: gradient routing. grad returns 1 + 2*n_outs expressions: a zero for
\* the condition, then the outputs of a conditional on the same condition
\* with then-values = the output gradients and else-values = zeros, then the
\* outputs of one with then-values = zeros and else-values = the output
\* gradients; evaluated, the gradient of the taken branch's input i is output
\* gradient i and that of the other branch's input i is zero.
C9_GradientRouting ==
    LET n == grad_op.n_outs
        l == grad_rval.list
        nt == grad_rval.if_true
        nf == grad_rval.if_false
    IN  /\ grad_rval.result \in {"pending", "list"}
        /\ grad_rval.result = "list" =>
              /\ Len(l) = 1 + 2 * n
              /\ l[1].kind = "zeros" /\ l[1].idx = 0
              /\ nt.op.n_outs = n /\ nf.op.n_outs = n
              /\ Len(nt.inputs) = 1 + 2 * n /\ Len(nf.inputs) = 1 + 2 * n
              /\ nt.inputs[1] = condition /\ nf.inputs[1] = condition
              /\ \A i \in 1 .. n :
                    /\ l[1 + i].kind = "out" /\ l[1 + i].node = "t" /\ l[1 + i].idx = i
                    /\ l[1 + n + i].kind = "out" /\ l[1 + n + i].node = "f"
                    /\ l[1 + n + i].idx = i
                    /\ nt.inputs[1 + i].kind = "grad" /\ nt.inputs[1 + i].idx = i
                    /\ nt.inputs[1 + n + i].kind = "zeros"
                    /\ nf.inputs[1 + i].kind = "zeros"
                    /\ nf.inputs[1 + n + i].kind = "grad" /\ nf.inputs[1 + n + i].idx = i
        /\ grad_values # <<>> =>
              /\ grad_values[1] = 0
              /\ \A i \in 1 .. n :
                    IF cond_value # 0
                    THEN grad_values[1 + i] = grads[i].value /\ grad_values[1 + n + i] = 0
                    ELSE grad_values[1 + i] = 0 /\ grad_values[1 + n + i] = grads[i].value

\* C9 witness: the gradient of a two-output node was evaluated for a true
\* condition, with output gradients 7 and 9 of a dtype other than the inputs'
C9_Witness ==
    /\ grad_op.n_outs = 2
    /\ cond_value = 1
    /\ grads[1].value = 7 /\ grads[2].value = 9
    /\ grads[1].dtype = "float64" /\ ins_dtype[1] = "int64"
    /\ grad_values = <<0, 7, 9, 0, 0>>

(***************************************************************************)
(* Properties of cond_remove_identical (specification SpecRemoveIdentical). *)
(***************************************************************************)
RiPair(nd, i) == <<nd.aes[i], nd.fs[i]>>
RiPairs(nd) == {RiPair(nd, i) : i \in 1 .. nd.n_outs}
RiHasIdentical == \E i, j \in 1 .. ri_node.n_outs : i < j /\ RiPair(ri_node, i) = RiPair(ri_node, j)

\* C10: deduplication. When two output indices have identical (then, else)
\* pairs the rewrite returns one replacement per original output, on a new
\* node with as many outputs as there are distinct pairs and no pair twice,
\* the replacement at i being the new output whose pair is the original pair
\* at i (so equal pairs get the same new output); [x,y,x] with [p,q,p] gives
\* a 2-output node and sends index 2 to the output of index 0; when no two
\* pairs are identical it returns False.
C10_RemoveIdentical ==
    ri_rval.result # "pending" =>
        /\ (ri_rval.result = "False") <=> ~RiHasIdentical
        /\ ri_rval.result = "list" =>
              LET nw == ri_rval.new_node
                  r == ri_rval.rval
              IN  /\ Len(r) = ri_node.n_outs
                  /\ nw.n_outs = Cardinality(RiPairs(ri_node))
                  /\ Len(nw.aes) = nw.n_outs /\ Len(nw.fs) = nw.n_outs
                  /\ \A a, b \in 1 .. nw.n_outs : RiPair(nw, a) = RiPair(nw, b) => a = b
                  /\ \A i \in 1 .. ri_node.n_outs :
                        /\ r[i] \in 1 .. nw.n_outs
                        /\ RiPair(nw, r[i]) = RiPair(ri_node, i)
                  /\ \A i, j \in 1 .. ri_node.n_outs :
                        RiPair(ri_node, i) = RiPair(ri_node, j) => r[i] = r[j]
                  /\ (ri_node.aes = <<"x", "y", "x">> /\ ri_node.fs = <<"p", "q", "p">>)
                        => (nw.n_outs = 2 /\ r = <<1, 2, 1>>)

\* C10 witness: then [x,y,x], else [p,q,p] was rewritten to a 2-output node
C10_Witness ==
    /\ ri_rval.result = "list"
    /\ ri_node.aes = <<"x", "y", "x">>
    /\ ri_node.fs = <<"p", "q", "p">>
    /\ ri_rval.new_node.aes = <<"x", "y">>
    /\ ri_rval.new_node.fs = <<"p", "q">>
    /\ ri_rval.rval = <<1, 2, 1>>

(***************************************************************************)
(* Properties of cond_merge_ifs_true and cond_merge_ifs_false              *)
(* (specification SpecMergeIfs).                                           *)
(***************************************************************************)
\* the side of the node the rewrite that is run looks at
SideIns(nd) == IF rw_name = "cond_merge_ifs_true" THEN t_ins(nd) ELSE f_ins(nd)
OtherIns(nd) == IF rw_name = "cond_merge_ifs_true" THEN f_ins(nd) ELSE t_ins(nd)

\* the node the rewrite was first run on, how many times it fired, and the
\* node it was last run on with the node that run produced
FirstNode == applies[rw_chain[1]]
Fired == Len(rw_chain) - 1
LastOld == applies[rw_chain[Len(rw_chain) - 1]]
LastNew == applies[rw_chain[Len(rw_chain)]]

\* val is output val[2] of a conditional node whose condition is c
InnerOf(c, val) ==
    val[1] # 0 /\ applies[val[1]].op.type = "IfElse" /\ applies[val[1]].inputs[1] = c

\* how many conditionals of condition c are nested at val, on the side the
\* rewrite looks at
RECURSIVE NestingAt(_, _)
NestingAt(c, val) ==
    IF InnerOf(c, val) THEN 1 + NestingAt(c, SideIns(applies[val[1]])[val[2]]) ELSE 0

MaxOf(S) == CHOOSE m \in S : \A k \in S : k <= m

NestingDepth(nd) ==
    MaxOf({NestingAt(nd.inputs[1], SideIns(nd)[idx]) : idx \in 1 .. nd.op.n_outs})

\* C11, as stated: run on the node a previous run of the same rewrite
\* produced, cond_merge_ifs_true (resp. cond_merge_ifs_false) returns 'no
\* match' whatever the nesting depth, so it never fires twice in a row
C11_AsStated == rw_chain # <<>> => Fired <= 1

\* C11, amended: the rewrite removes one level of same-condition nesting per
\* run; it fires exactly as many times in a row as the same-condition
\* conditionals are nested on its side of the first node, and returns 'no
\* match' on the node produced by the last of these runs (at nesting depth
\* 1, on the node produced by the first run)
C11_Idempotence ==
    rw_chain # <<>> =>
        /\ Fired <= NestingDepth(FirstNode)
        /\ rw_rval.result = "False" => Fired = NestingDepth(FirstNode)

\* the rewrite fired once on a node of nesting depth 1 and then returned
\* 'no match' on its own result
C11_Witness ==
    /\ rw_rval.result = "False"
    /\ Fired = 1
    /\ NestingDepth(FirstNode) = 1

\* the values the conditions take, and the values of the graph inputs
Envs ==
    {[k \in 1 .. (10 * MaxNest + 10) |->
        IF k = 1 THEN c1 ELSE IF k = 2 THEN c2 ELSE 100 + k] : c1 \in {0, 1}, c2 \in {0, 1}}

\* C14: when cond_merge_ifs_true (resp. cond_merge_ifs_false) fires, the
\* replacement has the same condition and the same op (so the same n_outs);
\* each then-input (resp. else-input) that was output j of an inner
\* conditional of the same condition is the inner node's then-value j
\* (resp. else-value j), every other input is unchanged, and for both truth
\* values of the conditions every output of the replacement has the value of
\* the same output of the original node
C14_MergePreservesValues ==
    rw_rval.result = "list" =>
        /\ LastNew.inputs[1] = LastOld.inputs[1]
        /\ LastNew.op = LastOld.op
        /\ Len(LastNew.inputs) = Len(LastOld.inputs)
        /\ \A idx \in 1 .. LastOld.op.n_outs :
              LET val == SideIns(LastOld)[idx]
              IN  /\ InnerOf(LastOld.inputs[1], val) =>
                        SideIns(LastNew)[idx] = SideIns(applies[val[1]])[val[2]]
                  /\ ~InnerOf(LastOld.inputs[1], val) => SideIns(LastNew)[idx] = val
        /\ OtherIns(LastNew) = OtherIns(LastOld)
        /\ \A env \in Envs : \A j \in 1 .. LastOld.op.n_outs :
              Value(applies, env, Out(rw_chain[Len(rw_chain)], j))
                = Value(applies, env, Out(rw_chain[Len(rw_chain) - 1], j))

\* cond_merge_ifs_false fired on a node of two outputs: it replaced the
\* else-value that was output 2 of an inner node and kept the other one
C14_Witness ==
    /\ rw_rval.result = "list"
    /\ rw_name = "cond_merge_ifs_false"
    /\ LastOld.op.n_outs = 2
    /\ \E idx \in 1 .. 2 :
          /\ InnerOf(LastOld.inputs[1], f_ins(LastOld)[idx])
          /\ f_ins(LastOld)[idx][2] = 2
          /\ f_ins(LastNew)[idx] # f_ins(LastOld)[idx]
          /\ f_ins(LastNew)[3 - idx] = f_ins(LastOld)[3 - idx]
    /\ t_ins(LastOld)[1] = f_ins(LastOld)[1]

(***************************************************************************)
(* Properties of CondMerge.apply (specification SpecCondMerge).            *)
(***************************************************************************)
\* the rewriter has run; the graph it was given
Merged == rw_name = "CondMerge" /\ rw_rval.result # "building"
Before == rw_rval.g
BeforeOuts == rw_rval.outs

\* the graph given holds k >= 2 conditional nodes, all of one condition, no
\* one depending on another
IndependentSameCondition ==
    /\ Len(Before) >= 2
    /\ \A a, b \in DOMAIN Before :
          /\ Before[a].inputs[1] = Before[b].inputs[1]
          /\ a # b => ~apply_depends_on(Before, a, b)

\* the conditional nodes of the condition of node 1 left in the graph
ConditionalsLeft ==
    {a \in ApplyNodes(applies, fg_outputs) :
        applies[a].op.type = "IfElse" /\ applies[a].inputs[1] = Before[1].inputs[1]}

\* the then-values (else-values) of the nodes of a list, one after another
RECURSIVE ThenValues(_, _)
ThenValues(g, nodelist) ==
    IF nodelist = <<>> THEN <<>>
    ELSE t_ins(g[Head(nodelist)]) \o ThenValues(g, Tail(nodelist))

RECURSIVE ElseValues(_, _)
ElseValues(g, nodelist) ==
    IF nodelist = <<>> THEN <<>>
    ELSE f_ins(g[Head(nodelist)]) \o ElseValues(g, Tail(nodelist))

\* where the outputs of node a start in a node that joins those of nodelist
RECURSIVE Offset(_, _, _)
Offset(g, nodelist, a) ==
    IF Head(nodelist) = a THEN 0
    ELSE g[Head(nodelist)].op.n_outs + Offset(g, Tail(nodelist), a)

\* C12: after one run of CondMerge.apply on a graph of k >= 2 conditional
\* nodes that share one condition and do not depend on one another (k = 2
\* and k = 3), exactly one conditional node of that condition is left, its
\* then-list and else-list are the originals' lists one after another, and
\* every consumer of an original output reads the matching output of that
\* node
C12_FusedIntoOne ==
    Merged /\ IndependentSameCondition =>
        /\ Cardinality(ConditionalsLeft) = 1
        /\ \A F \in ConditionalsLeft :
              /\ t_ins(applies[F]) = ThenValues(Before, rw_rval.nodelist)
              /\ f_ins(applies[F]) = ElseValues(Before, rw_rval.nodelist)
              /\ \A i \in DOMAIN BeforeOuts :
                    fg_outputs[i] =
                        Out(F, Offset(Before, rw_rval.nodelist, BeforeOuts[i][1])
                                 + BeforeOuts[i][2])

\* C16: CondMerge.apply never fuses two conditional nodes of which one
\* depends on the other, in the graph it is given and for every topological
\* order, and no branch input of a fused node depends on an output the
\* fused node replaces
C16_CycleSafety ==
    Merged =>
        \A k \in DOMAIN rw_chain :
            LET mn == rw_chain[k][1]
                pl == rw_chain[k][2]
                new == rw_chain[k][3]
            IN  /\ ~apply_depends_on(Before, pl, mn)
                /\ ~apply_depends_on(Before, mn, pl)
                /\ \A i \in 2 .. Len(applies[new].inputs) :
                      applies[new].inputs[i][1] # 0 =>
                          /\ ~apply_depends_on(applies, applies[new].inputs[i][1], mn)
                          /\ ~apply_depends_on(applies, applies[new].inputs[i][1], pl)

(***************************************************************************)
(* Properties of ifelse_lift_single_if_through_acceptable_ops              *)
(* (specification SpecLift).                                               *)
(***************************************************************************)
\* the rewrite has run; the node it was run on and the conditional nodes
\* that produce inputs of that node
Lifted == rw_name = "ifelse_lift" /\ rw_rval.result # "building"
LiftMain == rw_chain[1]
LiftProducers == InputIfElseNodes(applies, applies[LiftMain])

\* the inputs of op in conditional(c, op(..x..), op(..y..)): branch is 0 for
\* the then-values, 1 for the else-values
LiftedInputs(nd, branch) ==
    [i \in DOMAIN applies[LiftMain].inputs |->
        LET x == applies[LiftMain].inputs[i]
        IN  IF x[1] = nd
            THEN applies[nd].inputs[1 + branch * applies[nd].op.n_outs + x[2]]
            ELSE x]

\* C13: for a node whose op is in the allow-list and with exactly one
\* conditional node among the producers of its inputs, the lift returns,
\* without raising, the outputs of conditional(c, op(..x..), op(..y..)),
\* each input that is output j of the conditional replaced by then-value j
\* in the first op and by else-value j in the second, the others unchanged;
\* with no or with several conditional producers it returns 'no match'
C13_Lift ==
    Lifted /\ applies[LiftMain].op.type \in acceptable_ops =>
        /\ Cardinality(LiftProducers) # 1 => rw_rval.result = "False"
        /\ Cardinality(LiftProducers) = 1 =>
              /\ rw_rval.result = "list"
              /\ \A nd \in LiftProducers :
                    /\ applies[LiftMain + 1]
                         = Apply(applies[LiftMain].op, LiftedInputs(nd, 0))
                    /\ applies[LiftMain + 2]
                         = Apply(applies[LiftMain].op, LiftedInputs(nd, 1))
                    /\ applies[LiftMain + 3].op.type = "IfElse"
                    /\ applies[LiftMain + 3].inputs
                         = <<applies[nd].inputs[1], Out(LiftMain + 1, 1), Out(LiftMain + 2, 1)>>

(***************************************************************************)
(* Properties of cond_merge_random_op (specification SpecMergeRandomOp).   *)
(***************************************************************************)
\* the rewrite has run; the node it was run on and the conditional nodes
\* that produce inputs of that node
RandomOpRan == rw_name = "cond_merge_random_op" /\ rw_rval.result # "building"
RandomOpMain == Len(applies) - Len(rw_rval.built)
RandomOpProducers == InputIfElseNodes(applies, applies[RandomOpMain])

\* the pairs of distinct producers of one condition, neither depending on
\* the other
MatchingPairs ==
    {p \in RandomOpProducers \X RandomOpProducers :
        /\ p[1] # p[2]
        /\ applies[p[1]].inputs[1] = applies[p[2]].inputs[1]
        /\ ~apply_depends_on(applies, p[1], p[2])
        /\ ~apply_depends_on(applies, p[2], p[1])}

\* C15: for a node that is not a conditional and has two distinct
\* conditional producers of one condition, neither depending on the other,
\* cond_merge_random_op fuses such a pair into a node whose then-list
\* (else-list) is the first node's followed by the second's and returns the
\* outputs of the node re-derived with each output of the pair replaced by
\* the fused output at the matching position, whichever producer is visited
\* first and also when a conditional producer of another condition is there
C15_MergeRandomOp ==
    RandomOpRan /\ applies[RandomOpMain].op.type # "IfElse" /\ MatchingPairs # {} =>
        /\ rw_rval.result = "list"
        /\ \E p \in MatchingPairs :
              LET fused == applies[RandomOpMain + 1]
                  main == applies[RandomOpMain]
              IN  /\ fused.op.type = "IfElse"
                  /\ fused.inputs[1] = applies[p[1]].inputs[1]
                  /\ t_ins(fused) = t_ins(applies[p[1]]) \o t_ins(applies[p[2]])
                  /\ f_ins(fused) = f_ins(applies[p[1]]) \o f_ins(applies[p[2]])
                  /\ applies[RandomOpMain + 2].op = main.op
                  /\ applies[RandomOpMain + 2].inputs =
                       [i \in DOMAIN main.inputs |->
                          LET x == main.inputs[i]
                          IN  IF x[1] = p[1] THEN Out(RandomOpMain + 1, x[2])
                              ELSE IF x[1] = p[2]
                              THEN Out(RandomOpMain + 1, applies[p[1]].op.n_outs + x[2])
                              ELSE x]

(***************************************************************************)
(* Properties of cond_make_inplace (specification SpecMakeInplace).        *)
(***************************************************************************)
\* C17: run on a conditional node, cond_make_inplace fires exactly when the
\* node is not in-place already and the graph has fewer than 500 nodes or
\* some output is not a scalar; the replacement has the same inputs, n_outs
\* and label with the in-place flag set; otherwise, and on its own result,
\* it returns 'no match'
C17_MakeInplace ==
    rw_name = "cond_make_inplace" /\ rw_chain # <<>> /\ FirstNode.op.type = "IfElse" =>
        /\ Fired >= 1 <=>
              /\ ~FirstNode.op.as_view
              /\ apply_nodes_len < 500 \/ \E o \in DOMAIN out_ndim : out_ndim[o] # 0
        /\ Fired <= 1
        /\ Fired = 1 =>
              /\ applies[rw_chain[2]].inputs = FirstNode.inputs
              /\ applies[rw_chain[2]].op =
                    [FirstNode.op EXCEPT !.as_view = TRUE]
        /\ Fired = 0 => rw_rval.result = "False" /\ Len(applies) = 1

\* in a graph of 500 nodes a node with an output that is not a scalar was
\* made in-place, and the rewrite returned 'no match' on its own result
C17_Witness ==
    /\ rw_name = "cond_make_inplace"
    /\ rw_rval.result = "False"
    /\ Len(rw_chain) = 2
    /\ apply_nodes_len = 500
    /\ applies[rw_chain[2]].op.as_view

(***************************************************************************)
(* Properties of the thunk under the strict scheduler (specification       *)
(* SpecProgress) and of its flags (specification Spec).                    *)
(***************************************************************************)
\* C18, as stated: under the strict scheduler the thunk eventually returns
\* the empty list
C18_AsStated == <>(status = "done")

\* C18, amended: under the strict scheduler the thunk eventually returns
\* the empty list, unless the copy of an output value raises in that
\* invocation; it is invoked at most three times; each non-empty list it
\* returns names an input that is not computed
C18_Progress ==
    /\ <>(status \in {"done", "raised"})
    /\ [](calls <= 3)
    /\ [][calls' # calls /\ status' = "need" =>
            /\ rval' # <<>>
            /\ \E k \in Range(rval') : ~compute_in[k]]_vars

\* the thunk returned the empty list at its third invocation
C18_Witness == calls = 3 /\ status = "done"

\* C19: in every state that invocations of the thunk reach, the state left
\* by an invocation in which the copy of an output value raised included,
\* an output whose computed flag is set holds in its storage a value equal
\* to the input of the selected branch at the same index (as long as no
\* later consumer has overwritten that input)
C19_FlagValueConsistency ==
    ~mutated =>
        \A i \in OutIdx :
            compute_out[i] =>
                /\ storage_out[i] # 0
                /\ OutValue(i) = heap[storage_in[SelectedInput(i)]]

====
